---- MODULE Spec2Model ----
(***************************************************************************)
(* Positional topic modeling: the Text pipeline of ptm.py (split, unique   *)
(* vocabulary, subset vocabulary, positions list, position lookup,         *)
(* similarity stacks, topic clumps), the default comparer of comparers.py  *)
(* with its helpers of utilities.py, and the default parameterizer of      *)
(* parameterizers.py.                                                      *)
(*                                                                         *)
(* Python values are kept as they are: ids and positions are 0-based       *)
(* numbers, lists are sequences (so element k of a Python list is element  *)
(* k + 1 of the sequence).                                                 *)
(***************************************************************************)
EXTENDS Integers, Sequences, FiniteSets, TLC

VARIABLES
    lines,                  \* the file's tokens, as line.split(' ') yields them
    stop_words,             \* Splitter.stop_words
    words,                  \* Splitter.words: the cleaned tokens, in order
    total_wordcount,        \* Splitter.total_wordcount
    word_counts_dictionary, \* Splitter.word_counts_dictionary
    dict_order,             \* the iteration order of word_counts_dictionary
    built,                  \* the ratio the derived structures were built with, if any
    unique_vocab,           \* Text.unique_vocab
    word_index_dictionary,  \* Text.word_index_dictionary
    subset_vocab_i,         \* Text.subset_vocab_i
    positions,              \* Text.positions
    op,                     \* the last operation called, with its arguments
    result,                 \* what that operation returned or raised
    pc,                     \* position of build_unconsolidated_topic_clumps
    radius,                 \* its argument
    clumps,                 \* its local clumps
    free_agents,            \* its local free_agents
    i,                      \* its loop counter
    outcome                 \* per processed word, which branch its turn took

vars == <<lines, stop_words, words, total_wordcount, word_counts_dictionary,
          dict_order, built, unique_vocab, word_index_dictionary,
          subset_vocab_i, positions, op, result, pc, radius, clumps,
          free_agents, i, outcome>>

(***************************************************************************)
(* Bounds of the model.                                                    *)
(***************************************************************************)
MaxLen == 4        \* tokens in a file of the vocabulary specification
MaxClumpLen == 5   \* tokens in a file of the clump specification
MaxTrunc == 2      \* largest truncate argument
MaxPos == 3        \* largest position in a comparer input
MaxCmpLen == 3     \* longest comparer input
MaxStackLen == 3   \* longest stack given to the parameterizer

(***************************************************************************)
(* Program constants.                                                      *)
(***************************************************************************)
DEF_NUMERATOR == 5
DEF_DENOMINATOR == 100000
PARAM_THRESHOLD == 1000

None == "None"

(***************************************************************************)
(* Values an operation hands back: a returned value, a returned None, or   *)
(* an exception that leaves the operation.                                 *)
(***************************************************************************)
Idle == [kind |-> "idle", value |-> <<>>, exc |-> ""]
Return(v) == [kind |-> "return", value |-> v, exc |-> ""]
ReturnNone == [kind |-> "none", value |-> <<>>, exc |-> ""]
Raise(e) == [kind |-> "raise", value |-> <<>>, exc |-> e]

(***************************************************************************)
(* Splitter                                                                *)
(***************************************************************************)
\* Sample tokens: "Fox," is lowercased and scrubbed of its comma, "42" has
\* no letters and fails WORD_REGEX.
RawTokens == {"fox", "Fox,", "jumps", "the", "42"}
ClumpTokens == {"fox", "jumps", "runs", "the"}
StopCandidates == {"the"}

_clean_word(word) ==
    CASE word = "Fox," -> "fox"
      [] word = "42" -> None
      [] OTHER -> word

RECURSIVE split_from(_, _, _)
split_from(ls, k, acc) ==
    IF k > Len(ls) THEN acc
    ELSE LET clean_word == _clean_word(ls[k])
             counted == [acc EXCEPT !.total_wordcount = @ + 1]
             d == acc.word_counts_dictionary
         IN  IF clean_word # None
             THEN split_from(ls, k + 1,
                    [counted EXCEPT
                       !.words = Append(@, clean_word),
                       !.word_counts_dictionary =
                           IF clean_word \in DOMAIN d
                           THEN [d EXCEPT ![clean_word] = @ + 1]
                           ELSE d @@ (clean_word :> 1)])
             ELSE split_from(ls, k + 1, counted)

split(ls) ==
    split_from(ls, 1, [words |-> <<>>, total_wordcount |-> 0,
                       word_counts_dictionary |-> <<>>])

\* Every order in which a dictionary with these keys may be iterated.
IterationOrders(keys) ==
    {s \in [1..Cardinality(keys) -> keys] :
        \A x, y \in 1..Cardinality(keys) : x # y => s[x] # s[y]}

Streams(tokens, n) == UNION {[1..k -> tokens] : k \in 0..n}

\* A Text object right after Splitter.__init__.
TextOf(ls, stops, order) ==
    /\ lines = ls
    /\ stop_words = stops
    /\ words = split(ls).words
    /\ total_wordcount = split(ls).total_wordcount
    /\ word_counts_dictionary = split(ls).word_counts_dictionary
    /\ dict_order = order
    /\ built = "none"
    /\ unique_vocab = <<>>
    /\ word_index_dictionary = <<>>
    /\ subset_vocab_i = <<>>
    /\ positions = <<>>
    /\ result = Idle
    /\ pc = "idle"
    /\ radius = 0
    /\ clumps = <<>>
    /\ free_agents = <<>>
    /\ i = 0
    /\ outcome = <<>>

Constructed(ls, stops, order) ==
    TextOf(ls, stops, order) /\ op = <<"new">>

(***************************************************************************)
(* Text: the derived structures                                            *)
(***************************************************************************)
\* unique_vocab lists the dictionary's keys in its iteration order.
build_unique_vocab == dict_order

build_word_index_dictionary(uv) ==
    [w \in {uv[k] : k \in 1..Len(uv)} |->
        (CHOOSE k \in 1..Len(uv) : uv[k] = w) - 1]

build_wordcounts_array(uv) ==
    [k \in 1..Len(uv) |-> word_counts_dictionary[uv[k]]]

\* int(x / y) of Python with a float x and y > 0: the quotient truncated
\* toward zero (exact for operands below 2^53).
IntTrunc(x, y) ==
    IF x >= 0 THEN x \div y ELSE -((-x) \div y)

min_count(numerator, denominator) ==
    IntTrunc(total_wordcount * numerator, denominator)

\* The threshold test with > for >=.
Keeps_strictly_above(count, threshold, word) ==
    count > threshold /\ word \notin stop_words

Keeps(count, threshold, word) ==
    count >= threshold /\ word \notin stop_words

RECURSIVE subset_from(_, _, _, _, _)
subset_from(uv, wca, threshold, k, acc) ==
    IF k > Len(wca) THEN acc
    ELSE subset_from(uv, wca, threshold, k + 1,
            IF Keeps(wca[k], threshold, uv[k])
            THEN Append(acc, k - 1) ELSE acc)

build_subset_vocab(uv, numerator, denominator) ==
    subset_from(uv, build_wordcounts_array(uv),
                min_count(numerator, denominator), 1, <<>>)

InSeq(x, s) == \E k \in 1..Len(s) : s[k] = x

RECURSIVE text_positions_from(_, _, _, _)
text_positions_from(wid, sv, k, acc) ==
    IF k > Len(words) THEN acc
    ELSE text_positions_from(wid, sv, k + 1,
            IF InSeq(wid[words[k]], sv)
            THEN Append(acc, <<wid[words[k]], k - 1>>) ELSE acc)

build_subset_text_word_positions(wid, sv) ==
    text_positions_from(wid, sv, 1, <<>>)

RECURSIVE w_positions_from(_, _, _, _)
w_positions_from(stwp, id, k, acc) ==
    IF k > Len(stwp) THEN acc
    ELSE w_positions_from(stwp, id, k + 1,
            IF stwp[k][1] = id THEN Append(acc, stwp[k][2]) ELSE acc)

build_positions_list(wid, sv) ==
    LET stwp == build_subset_text_word_positions(wid, sv)
    IN  [k \in 1..Len(sv) |-> w_positions_from(stwp, sv[k], 1, <<>>)]

\* The "prep" block that opens every operation: the memoized builders run
\* with the default ratio. A behaviour is one call on a new Text object, so
\* the builders have not run before.
Prep ==
    /\ built = "none"
    /\ built' = "default"
    /\ unique_vocab' = build_unique_vocab
    /\ word_index_dictionary' = build_word_index_dictionary(unique_vocab')
    /\ subset_vocab_i' =
          build_subset_vocab(unique_vocab', DEF_NUMERATOR, DEF_DENOMINATOR)
    /\ positions' = build_positions_list(word_index_dictionary', subset_vocab_i')

TextUnchanged ==
    UNCHANGED <<lines, stop_words, words, total_wordcount,
                word_counts_dictionary, dict_order>>

ClumpsUnchanged == UNCHANGED <<pc, radius, clumps, free_agents, i, outcome>>

Numerators == {0, 1, 2}
Denominators == {1, 2, 3}

\* build_subset_vocab called directly on a new Text, with a ratio.
BuildSubsetVocab(numerator, denominator) ==
    /\ built = "none"
    /\ pc = "idle"
    /\ built' = "custom"
    /\ unique_vocab' = build_unique_vocab
    /\ word_index_dictionary' = build_word_index_dictionary(unique_vocab')
    /\ subset_vocab_i' = build_subset_vocab(unique_vocab', numerator, denominator)
    /\ op' = <<"build_subset_vocab", numerator, denominator>>
    /\ result' = ReturnNone
    /\ TextUnchanged /\ ClumpsUnchanged /\ UNCHANGED positions

_positions_id_to_word(positions_id) ==
    unique_vocab[subset_vocab_i[positions_id + 1] + 1]

(***************************************************************************)
(* utilities.py and comparers.py                                           *)
(***************************************************************************)
\* A distance that keeps its sign.
abs_forgotten(x) == x

abs(x) == IF x < 0 THEN -x ELSE x

RECURSIVE min(_)
min(l) ==
    IF Len(l) = 1 THEN l[1]
    ELSE LET m == min(Tail(l)) IN IF l[1] <= m THEN l[1] ELSE m

RECURSIVE sum(_)
sum(l) == IF l = <<>> THEN 0 ELSE l[1] + sum(Tail(l))

__find_distance_to_nearest_neighbor(list_of_positions, position) ==
    LET radii == [k \in 1..Len(list_of_positions) |->
                     abs(list_of_positions[k] - position)]
    IN  min(radii)

__avg(l) == IntTrunc(sum(l), Len(l))

\* The walk the other way round: over the positions of a, nearest in b.
_CMP_walks_from_a_to_b(a, b) ==
    __avg([k \in 1..Len(a) |-> __find_distance_to_nearest_neighbor(b, a[k])])

_CMP_closest_neighbor_average_distance(a, b) ==
    LET radii == [k \in 1..Len(b) |->
                     __find_distance_to_nearest_neighbor(a, b[k])]
    IN  __avg(radii)

(***************************************************************************)
(* Text.get_positions_by_word                                              *)
(***************************************************************************)
\* list.index: the 0-based place of the first element equal to x.
index(s, x) == (CHOOSE k \in 1..Len(s) :
                   s[k] = x /\ \A j \in 1..(k - 1) : s[j] # x) - 1

\* Only the KeyError of the dictionary lookup is caught; the ValueError of
\* list.index leaves the method.
get_positions_by_word(wid, sv, pos, word) ==
    IF word \notin DOMAIN wid THEN ReturnNone
    ELSE IF ~InSeq(wid[word], sv) THEN Raise("ValueError")
    ELSE Return(pos[index(sv, wid[word]) + 1])

QueryWords == RawTokens \cup ClumpTokens

GetPositionsByWord(word) ==
    /\ pc = "idle"
    /\ Prep
    /\ op' = <<"get_positions_by_word", word>>
    /\ result' = get_positions_by_word(word_index_dictionary',
                                       subset_vocab_i', positions', word)
    /\ TextUnchanged /\ ClumpsUnchanged

(***************************************************************************)
(* Text.build_positional_similarity_stack_for_word / _for_subset_id        *)
(***************************************************************************)
\* sorted(scores, key=itemgetter(1)): a stable sort on the score.
RECURSIVE insert_sorted(_, _)
insert_sorted(s, x) ==
    IF s = <<>> THEN <<x>>
    ELSE IF s[Len(s)][2] <= x[2] THEN Append(s, x)
    ELSE Append(insert_sorted(SubSeq(s, 1, Len(s) - 1), x), s[Len(s)])

RECURSIVE sorted_from(_, _, _)
sorted_from(scores, k, acc) ==
    IF k > Len(scores) THEN acc
    ELSE sorted_from(scores, k + 1, insert_sorted(acc, scores[k]))

sorted(scores) == sorted_from(scores, 1, <<>>)

\* A truncate argument is <<>> for None and <<t>> for the number t.
Truthy(truncate) == truncate # <<>> /\ truncate[1] # 0

Slice(scores, n) ==
    SubSeq(scores, 1, IF n < Len(scores) THEN n ELSE Len(scores))

truncated(scores, truncate) ==
    IF Truthy(truncate) THEN Slice(scores, truncate[1]) ELSE scores

stack_for_word(uv, sv, pos, word_positions, truncate) ==
    LET scores == [j \in 1..Len(sv) |->
            <<uv[sv[j] + 1],
              _CMP_closest_neighbor_average_distance(word_positions, pos[j])>>]
    IN  truncated(sorted(scores), truncate)

stack_for_subset_id(sv, pos, idx, truncate) ==
    LET scores == [j \in 1..Len(sv) |->
            <<sv[j],
              _CMP_closest_neighbor_average_distance(pos[idx + 1], pos[j])>>]
    IN  truncated(sorted(scores), truncate)

Truncates == {<<>>} \cup {<<t>> : t \in 0..MaxTrunc}

\* A word outside the subset vocabulary: the lookup raises, or returns None
\* and the comparer then iterates over None.
BuildStackForWord(word, truncate) ==
    /\ pc = "idle"
    /\ Prep
    /\ op' = <<"build_positional_similarity_stack_for_word", word, truncate>>
    /\ LET found == get_positions_by_word(word_index_dictionary',
                                          subset_vocab_i', positions', word)
       IN  result' =
             CASE found.kind = "raise" -> found
               [] found.kind = "none" ->
                    IF subset_vocab_i' = <<>> THEN Return(<<>>)
                    ELSE Raise("TypeError")
               [] OTHER ->
                    Return(stack_for_word(unique_vocab', subset_vocab_i',
                                          positions', found.value, truncate))
    /\ TextUnchanged /\ ClumpsUnchanged

BuildStackForSubsetId(idx, truncate) ==
    /\ pc = "idle"
    /\ Prep
    /\ idx < Len(subset_vocab_i')
    /\ op' = <<"build_positional_similarity_stack_for_subset_id", idx, truncate>>
    /\ result' = Return(stack_for_subset_id(subset_vocab_i', positions',
                                            idx, truncate))
    /\ TextUnchanged /\ ClumpsUnchanged

(***************************************************************************)
(* The vocabulary specification: a Text over a short file, and the         *)
(* operations that read its subset vocabulary.                             *)
(***************************************************************************)
Init ==
    \E ls \in Streams(RawTokens, MaxLen), stops \in SUBSET StopCandidates :
        \E order \in IterationOrders(DOMAIN split(ls).word_counts_dictionary) :
            Constructed(ls, stops, order)

Next ==
    \/ \E n \in Numerators, d \in Denominators : BuildSubsetVocab(n, d)
    \/ \E w \in QueryWords : GetPositionsByWord(w)
    \/ \E w \in QueryWords, t \in Truncates : BuildStackForWord(w, t)
    \/ \E k \in 0..(MaxLen - 1), t \in Truncates : BuildStackForSubsetId(k, t)

Spec == Init /\ [][Next]_vars

(***************************************************************************)
(* Claims on the vocabulary specification                                  *)
(***************************************************************************)
\* How often a word occurs among the cleaned tokens of the file.
Occurrences(w) ==
    Cardinality({k \in 1..Len(lines) : _clean_word(lines[k]) = w})

SubsetWords == {unique_vocab[subset_vocab_i[k] + 1] : k \in 1..Len(subset_vocab_i)}

StrictlyAscending(s) == \A x, y \in 1..Len(s) : x < y => s[x] < s[y]

\* C8: build_subset_vocab(numerator, denominator) retains a vocabulary id
\* exactly when its word occurs at least
\* floor(total tokens * numerator / denominator) times and is no stop word,
\* the total counting every token of the file, those that cleaning discards
\* too; the retained ids are in ascending order.
C8_SubsetVocabRetention ==
    op[1] = "build_subset_vocab" =>
        /\ StrictlyAscending(subset_vocab_i)
        /\ {subset_vocab_i[k] : k \in 1..Len(subset_vocab_i)} =
              {id \in 0..(Len(unique_vocab) - 1) :
                  /\ Occurrences(unique_vocab[id + 1]) >=
                        (Len(lines) * op[2]) \div op[3]
                  /\ unique_vocab[id + 1] \notin stop_words}

\* A call that drops a word for its count alone and keeps another, on a
\* file with a token that cleaning discarded.
C8_Witness ==
    /\ op[1] = "build_subset_vocab"
    /\ Len(lines) > Len(words)
    /\ subset_vocab_i # <<>>
    /\ \E w \in DOMAIN word_counts_dictionary :
          w \notin stop_words /\ w \notin SubsetWords

\* C4: get_positions_by_word returns None, and raises nothing, for every
\* word that is not in the subset vocabulary.
C4_LookupMissReturnsNone ==
    (op[1] = "get_positions_by_word" /\ op[2] \notin SubsetWords) =>
        result.kind = "none"

IsStackOp ==
    op[1] \in {"build_positional_similarity_stack_for_word",
               "build_positional_similarity_stack_for_subset_id"}

\* The vocabulary id a stack entry stands for.
EntryId(e) ==
    IF op[1] = "build_positional_similarity_stack_for_word"
    THEN word_index_dictionary[e[1]] ELSE e[1]

Untruncated ==
    IF op[1] = "build_positional_similarity_stack_for_word"
    THEN stack_for_word(unique_vocab, subset_vocab_i, positions,
                        positions[index(subset_vocab_i,
                                        word_index_dictionary[op[2]]) + 1],
                        <<>>)
    ELSE stack_for_subset_id(subset_vocab_i, positions, op[2], <<>>)

\* C5: for a target word of the subset vocabulary and any truncate, 0
\* included, the stack is ascending by score, entries of equal score are in
\* subset vocabulary order, and a given truncate leaves exactly
\* min(truncate, size of the subset vocabulary) entries, the first ones of
\* the untruncated stack.
C5_StackSortedStableTruncated ==
    (IsStackOp /\ result.kind = "return" /\ subset_vocab_i # <<>>) =>
        LET s == result.value
            t == op[3]
            n == Len(subset_vocab_i)
        IN  /\ \A x, y \in 1..Len(s) : x < y =>
                  /\ s[x][2] <= s[y][2]
                  /\ s[x][2] = s[y][2] => EntryId(s[x]) < EntryId(s[y])
            /\ t # <<>> =>
                  /\ Len(s) = (IF t[1] < n THEN t[1] ELSE n)
                  /\ s = SubSeq(Untruncated, 1, Len(s))

(***************************************************************************)
(* Text.build_unconsolidated_topic_clumps                                  *)
(***************************************************************************)
\* list.sort() on a list of positions.
RECURSIVE insert_position(_, _)
insert_position(s, x) ==
    IF s = <<>> THEN <<x>>
    ELSE IF s[Len(s)] <= x THEN Append(s, x)
    ELSE Append(insert_position(SubSeq(s, 1, Len(s) - 1), x), s[Len(s)])

RECURSIVE sort(_)
sort(l) == IF l = <<>> THEN <<>>
           ELSE insert_position(sort(SubSeq(l, 1, Len(l) - 1)), l[Len(l)])

\* The test of both scans: score < radius.
under_radius(score, r) == score < r

\* The free agent of a new clump left available.
consume_nothing(fas, k) == fas

\* free_agent[2] = False
consume(fas, k) == [fas EXCEPT ![k] = <<@[1], @[2], FALSE>>]

\* The token streams of the clump specification: every short one, and the
\* six tokens "the fox jumps the fox runs".
Scenario == <<"the", "fox", "jumps", "the", "fox", "runs">>
ClumpStreams == Streams(ClumpTokens, MaxClumpLen) \cup {Scenario}
Radii == {-1, 0, 1, 2, 3}

\* The prep block, then the empty clump list and one free agent per
\* positions list, all available. The radius is not inspected.
StartClumps(r) ==
    /\ pc = "idle"
    /\ Prep
    /\ op' = <<"build_unconsolidated_topic_clumps", r>>
    /\ result' = Idle
    /\ radius' = r
    /\ clumps' = <<>>
    /\ free_agents' = [k \in 1..Len(positions') |-> <<k - 1, positions'[k], TRUE>>]
    /\ i' = 0
    /\ outcome' = <<>>
    /\ pc' = "loop"
    /\ TextUnchanged

\* The clumps the word of this turn scores under the radius against.
MatchingClumps ==
    {c \in 1..Len(clumps) :
        under_radius(_CMP_closest_neighbor_average_distance(
                         positions[i + 1], clumps[c][2]), radius)}

\* The free agents the second scan accepts: another word's, still
\* available, and under the radius.
MatchingFreeAgents ==
    {k \in 1..Len(free_agents) :
        /\ free_agents[k][1] # i
        /\ free_agents[k][3]
        /\ under_radius(_CMP_closest_neighbor_average_distance(
                            positions[i + 1], free_agents[k][2]), radius)}

First(S) == CHOOSE k \in S : \A j \in S : k <= j

InLoop == pc = "loop" /\ i < Len(positions)

Turn(branch) ==
    /\ i' = i + 1
    /\ outcome' = Append(outcome, branch)
    /\ TextUnchanged
    /\ UNCHANGED <<built, unique_vocab, word_index_dictionary, subset_vocab_i,
                   positions, op, result, pc, radius>>

\* The first scan finds a clump: the word joins the first one that matches.
ClumpMerge ==
    /\ InLoop
    /\ MatchingClumps # {}
    /\ LET c == First(MatchingClumps)
       IN  clumps' = [clumps EXCEPT ![c] =
               <<Append(@[1], _positions_id_to_word(i)),
                 sort(@[2] \o positions[i + 1])>>]
    /\ UNCHANGED free_agents
    /\ Turn("clump")

\* No clump, and the second scan finds a free agent: a new clump of the
\* free agent's word and this word; the free agent is consumed.
FreeAgentMerge ==
    /\ InLoop
    /\ MatchingClumps = {}
    /\ MatchingFreeAgents # {}
    /\ LET k == First(MatchingFreeAgents)
           free_agent == free_agents[k]
       IN  /\ clumps' = Append(clumps,
                  <<<<_positions_id_to_word(free_agent[1]),
                      _positions_id_to_word(i)>>,
                    sort(free_agent[2] \o positions[i + 1])>>)
           /\ free_agents' = consume(free_agents, k)
    /\ Turn("free_agent")

\* Neither scan finds anything: nothing is changed for this word.
ThrowOut ==
    /\ InLoop
    /\ MatchingClumps = {}
    /\ MatchingFreeAgents = {}
    /\ UNCHANGED <<clumps, free_agents>>
    /\ Turn("none")

ClumpsReturn ==
    /\ pc = "loop"
    /\ i = Len(positions)
    /\ pc' = "done"
    /\ result' = Return(clumps)
    /\ TextUnchanged
    /\ UNCHANGED <<built, unique_vocab, word_index_dictionary, subset_vocab_i,
                   positions, op, radius, clumps, free_agents, i, outcome>>

InitClumps ==
    \E ls \in ClumpStreams, stops \in SUBSET StopCandidates :
        \E order \in IterationOrders(DOMAIN split(ls).word_counts_dictionary) :
            Constructed(ls, stops, order)

NextClumps ==
    \/ \E r \in Radii : StartClumps(r)
    \/ ClumpMerge
    \/ FreeAgentMerge
    \/ ThrowOut
    \/ ClumpsReturn

SpecClumps == InitClumps /\ [][NextClumps]_vars

(***************************************************************************)
(* Claims on the clump specification                                       *)
(***************************************************************************)
Elements(s) == {s[k] : k \in 1..Len(s)}

ClumpsWith(cs, w) == {c \in 1..Len(cs) : w \in Elements(cs[c][1])}

\* C1: the returned clump list has each word of the subset vocabulary in
\* the member list of at most one clump.
C1_WordInAtMostOneClump ==
    pc = "done" =>
        \A w \in SubsetWords : Cardinality(ClumpsWith(result.value, w)) <= 1

ScenarioRun ==
    /\ op[1] = "build_unconsolidated_topic_clumps"
    /\ lines = Scenario
    /\ stop_words = {"the"}
    /\ radius = 3
    /\ [k \in 1..Len(positions) |-> _positions_id_to_word(k - 1)] =
          <<"fox", "jumps", "runs">>

\* C2: on "the fox jumps the fox runs" with stop word "the", the words
\* taken in the order fox, jumps, runs and radius 3, the clump of jumps and
\* fox has positions [1,2,4] after their merge, and the run returns exactly
\* one clump, of the three words, with positions [1,2,4,5].
C2_ScenarioOneClump ==
    ScenarioRun =>
        /\ i = 1 => Len(clumps) = 1 /\ clumps[1][2] = <<1, 2, 4>>
        /\ pc = "done" =>
              /\ Len(result.value) = 1
              /\ Elements(result.value[1][1]) = {"fox", "jumps", "runs"}
              /\ result.value[1][2] = <<1, 2, 4, 5>>

PositionsOfWord(w) ==
    Elements(positions[index(subset_vocab_i, word_index_dictionary[w]) + 1])

\* C10: after every word processed, each clump's position list is the
\* sorted union of its members' position lists: strictly ascending, no
\* position twice.
C10_ClumpPositionsSortedUnion ==
    pc \in {"loop", "done"} =>
        \A c \in 1..Len(clumps) :
            /\ StrictlyAscending(clumps[c][2])
            /\ Elements(clumps[c][2]) =
                  UNION {PositionsOfWord(w) : w \in Elements(clumps[c][1])}

(***************************************************************************)
(* parameterizers.py                                                       *)
(***************************************************************************)
\* The scan without the slice that drops the identity entry.
rest_with_identity(s) == s

\* s[1:]
rest(s) == IF s = <<>> THEN <<>> ELSE Tail(s)

hits_threshold(score) == score >= PARAM_THRESHOLD

\* The loop over enumerate(entries): the 0-based index of the first entry
\* at the threshold is returned; a loop that runs out falls off the end of
\* the function, which returns None.
RECURSIVE param_from(_, _)
param_from(entries, k) ==
    IF k > Len(entries) THEN ReturnNone
    ELSE IF hits_threshold(entries[k][2]) THEN Return(k - 1)
    ELSE param_from(entries, k + 1)

_PARAM_number_of_words_to_hit_1000(s) == param_from(rest(s), 1)

(***************************************************************************)
(* The strategy specification: the comparer and the parameterizer, each    *)
(* applied once to an input drawn from a bounded set.                      *)
(***************************************************************************)
PositionLists == UNION {[1..n -> 0..MaxPos] : n \in 1..MaxCmpLen}

ScoreSamples == {0, 999, PARAM_THRESHOLD, PARAM_THRESHOLD + 1}

\* Stacks as the stack builders leave them: ascending by score.
Stacks ==
    {s \in UNION {[1..n -> {"fox", "jumps"} \X ScoreSamples] :
                     n \in 0..MaxStackLen} :
        \A x, y \in 1..Len(s) : x < y => s[x][2] <= s[y][2]}

InitStrategies ==
    /\ TextOf(<<>>, {}, <<>>)
    /\ \/ \E a, b \in PositionLists : op = <<"comparer input", a, b>>
       \/ \E s \in Stacks : op = <<"parameterizer input", s>>

Compare ==
    /\ op[1] = "comparer input"
    /\ op' = <<"_CMP_closest_neighbor_average_distance", op[2], op[3]>>
    /\ result' = Return(_CMP_closest_neighbor_average_distance(op[2], op[3]))
    /\ TextUnchanged /\ ClumpsUnchanged
    /\ UNCHANGED <<built, unique_vocab, word_index_dictionary,
                   subset_vocab_i, positions>>

Parameterize ==
    /\ op[1] = "parameterizer input"
    /\ op' = <<"_PARAM_number_of_words_to_hit_1000", op[2]>>
    /\ result' = _PARAM_number_of_words_to_hit_1000(op[2])
    /\ TextUnchanged /\ ClumpsUnchanged
    /\ UNCHANGED <<built, unique_vocab, word_index_dictionary,
                   subset_vocab_i, positions>>

NextStrategies == Compare \/ Parameterize

SpecStrategies == InitStrategies /\ [][NextStrategies]_vars

(***************************************************************************)
(* Claims on the strategy specification                                    *)
(***************************************************************************)
Distance(p, q) == IF p >= q THEN p - q ELSE q - p

\* The least distance from p to a position of a.
Nearest(a, p) ==
    CHOOSE d \in {Distance(p, a[k]) : k \in 1..Len(a)} :
        \A k \in 1..Len(a) : d <= Distance(p, a[k])

RECURSIVE TotalNearest(_, _, _)
TotalNearest(a, b, n) ==
    IF n = 0 THEN 0 ELSE Nearest(a, b[n]) + TotalNearest(a, b, n - 1)

====
